---- MODULE Spec2Model ----
(***************************************************************************)
(* Outbound GitHub API client layer of github-for-jira:                    *)
(*   src/github/client/github-client.ts      (GitHubClient)                *)
(*   src/github/client/github-app-client.ts  (GitHubAppClient)             *)
(*                                                                         *)
(* Conventions.  An optional value (a TypeScript `x?: T`, or a value that  *)
(* may be undefined) is a sequence of length at most one: <<>> is          *)
(* undefined and <<v>> is the value v.  Host names are sequences of        *)
(* one-character strings so that String.prototype.endsWith can be          *)
(* computed character by character.                                        *)
(***************************************************************************)
EXTENDS Integers, Sequences, FiniteSets, TLC

VARIABLES gitHubConfig, envPROXY, ctor, axiosConfig, interceptors, gcall,
          appClient, appTokenHolder, calls

vars == <<gitHubConfig, envPROXY, ctor, axiosConfig, interceptors, gcall,
          appClient, appTokenHolder, calls>>

clientVars == <<gitHubConfig, envPROXY, ctor, axiosConfig, interceptors, gcall>>

appVars == <<appClient, appTokenHolder, calls>>

Undefined == <<>>

Some(v) == <<v>>

\* JavaScript truthiness of an optional string: undefined and "" are falsy.
Truthy(opt) == opt # Undefined /\ opt[1] # ""

-----------------------------------------------------------------------------
(* Host names and URLs                                                     *)

TrustedSuffix == <<"a","t","l","a","s","s","i","a","n",".","c","o","m">>

HostAtlassian == TrustedSuffix

HostApiAtlassian == <<"a","p","i",".">> \o TrustedSuffix

HostEvilAtlassian == <<"e","v","i","l">> \o TrustedSuffix

HostGitHub == <<"g","i","t","h","u","b",".","c","o","m">>

HostAtlassianPrefix == TrustedSuffix \o <<".","g","h","e",".","i","o">>

Hostnames == {HostAtlassian, HostApiAtlassian, HostEvilAtlassian, HostGitHub, HostAtlassianPrefix}

Protocols == {"https:", "http:"}

Port443 == <<"4","4","3">>

Port8080 == <<"8","0","8","0">>

\* "" is an URL without an explicit port
Ports == {<<>>, Port443, Port8080}

DefaultPort(protocol) == IF protocol = "https:" THEN Port443 ELSE <<"8","0">>

InvalidUrl == [valid |-> FALSE, protocol |-> "https:", hostname |-> <<>>, port |-> <<>>]

ApiUrls == {InvalidUrl} \cup [valid : {TRUE}, protocol : Protocols, hostname : Hostnames, port : Ports]

\* String.prototype.endsWith
EndsWith(s, suffix) ==
    /\ Len(suffix) <= Len(s)
    /\ SubSeq(s, Len(s) - Len(suffix) + 1, Len(s)) = suffix

\* new URL(u).host: the host name, followed by ":" and the port unless the
\* port is absent or is the default port of the scheme.
URLHost(u) ==
    IF u.port = <<>> \/ u.port = DefaultPort(u.protocol)
    THEN u.hostname
    ELSE u.hostname \o <<":">> \o u.port

-----------------------------------------------------------------------------
(* GitHubClient: choice of the proxy configuration                         *)

ExplicitProxyUrl == "http://proxy.ghe.internal:8080"

EnvProxyUrl == "http://egress.internal:3128"

ProxyBaseUrls == {Undefined, Some(""), Some(ExplicitProxyUrl)}

EnvProxies == {Undefined, Some(""), Some(EnvProxyUrl)}

GraphqlUrls == {"https://api.github.com/graphql", "https://ghe.example.org/api/graphql"}

GitHubConfigs == [apiUrl : ApiUrls, graphqlUrl : GraphqlUrls, proxyBaseUrl : ProxyBaseUrls]

HttpProxyAgent(url) == [agent |-> "HttpProxyAgent", proxy |-> url]

HttpsProxyAgent(url) == [agent |-> "HttpsProxyAgent", proxy |-> url]

NoAxiosConfig == [httpAgent |-> Undefined, httpsAgent |-> Undefined, proxy |-> TRUE]

noProxyConfig == [httpAgent |-> Undefined, httpsAgent |-> Undefined, proxy |-> FALSE]

outboundProxyConfig(envProxy) ==
    LET outboundProxyHttpsAgent ==
            IF Truthy(envProxy) THEN Some(HttpsProxyAgent(envProxy[1])) ELSE Undefined
    IN  [httpAgent |-> Undefined, httpsAgent |-> outboundProxyHttpsAgent, proxy |-> FALSE]

getProxyConfig(baseUrl, envProxy) ==
    IF EndsWith(URLHost(baseUrl), TrustedSuffix)
    THEN noProxyConfig
    ELSE outboundProxyConfig(envProxy)

\* faulty variant: only the HTTPS agent is built
buildProxyConfig_httpsOnly(proxyBaseUrl) ==
    [httpAgent |-> Undefined,
     httpsAgent |-> Some(HttpsProxyAgent(proxyBaseUrl)),
     proxy |-> FALSE]

buildProxyConfig(proxyBaseUrl) ==
    [httpAgent |-> Some(HttpProxyAgent(proxyBaseUrl)),
     httpsAgent |-> Some(HttpsProxyAgent(proxyBaseUrl)),
     proxy |-> FALSE]


-----------------------------------------------------------------------------
(* Request configurations, responses and errors                            *)

Lit(text) == [kind |-> "lit", text |-> text]

Param(name) == [kind |-> "param", text |-> name]

NoHeaders == [Accept |-> Undefined, Authorization |-> Undefined]

AxiosDefaultAccept == "application/json, text/plain, */*"

AppPreviewAccept == "application/vnd.github.machine-man-preview+json"

Bearer(token) == [scheme |-> "Bearer", token |-> token]

\* a credential that does not come from the Token Provider
CallerAuthorization == [scheme |-> "token", token |-> 0]

\* headers of the merged request configuration as they reach the request
\* interceptors: the transport's defaults and what the call site passed
IncomingHeaders ==
    { NoHeaders,
      [Accept |-> Some(AxiosDefaultAccept), Authorization |-> Undefined],
      [Accept |-> Some("text/html"), Authorization |-> Some(CallerAuthorization)] }

RequestConfig(method, url, urlParams, headers, data) ==
    [method |-> method, url |-> url, urlParams |-> urlParams, headers |-> headers,
     data |-> data, timeout |-> Undefined, requestStartTime |-> Undefined]

NoConfig == RequestConfig("none", <<>>, {}, NoHeaders, Undefined)

NoError == [kind |-> "none", status |-> 0, class |-> "none"]

TransportError(kind, status) == [kind |-> kind, status |-> status, class |-> "none"]

\* what the network can answer to a dispatched request, apart from a 2xx
\* response: connection failure, timeout, non-2xx status
TransportFailures ==
    { TransportError("ECONNREFUSED", 0), TransportError("ETIMEDOUT", 0),
      TransportError("status", 404), TransportError("status", 500) }

Response(status, body) == [status |-> status, data |-> body]

NoResponse == Response(0, Undefined)

\* the rejection value of graphql when the body carries errors
NoThrown == [name |-> "none", message |-> <<>>, errors |-> <<>>, response |-> NoResponse]

-----------------------------------------------------------------------------
(* Token Provider (AppTokenHolder)                                         *)

MaxRotations == 2

ProviderModes == {"ok", "throws", "undefined"}

\* AppTokenHolder.getAppToken(installationId): the current token, or a throw;
\* "undefined" is a provider that yields no credential object at all
getAppToken(holder) ==
    IF holder.mode = "ok" THEN Some([token |-> holder.version]) ELSE Undefined

-----------------------------------------------------------------------------
(* Interceptors                                                            *)

Handler(fulfilled, rejected) == [fulfilled |-> fulfilled, rejected |-> rejected]

NoInterceptors == [request |-> <<>>, response |-> <<>>]

\* axios.interceptors.request.use(fulfilled, rejected)
UseRequest(im, fulfilled, rejected) ==
    [im EXCEPT !.request = Append(@, Handler(fulfilled, rejected))]

\* axios.interceptors.response.use(fulfilled, rejected)
UseResponse(im, fulfilled, rejected) ==
    [im EXCEPT !.response = Append(@, Handler(fulfilled, rejected))]

Reverse(s) == [i \in 1..Len(s) |-> s[Len(s) + 1 - i]]

\* The promise chain axios builds for one request: every request interceptor
\* is put in FRONT of the chain as it is visited (so the one registered last
\* runs first), then dispatchRequest, then the response interceptors in the
\* order of their registration.
AxiosChain(im) ==
    Reverse(im.request) \o <<Handler("dispatchRequest", "none")>> \o im.response

\* faulty variant: the authentication interceptor is registered first
GitHubAppClientInterceptors_authFirst ==
    LET i1 == UseRequest(NoInterceptors, "appAuthenticationHeaders", "none")
        i2 == UseRequest(i1, "setRequestStartTime", "none")
        i3 == UseRequest(i2, "setRequestTimeout", "none")
        i4 == UseRequest(i3, "urlParamsMiddleware", "none")
        i5 == UseResponse(i4, "none", "handleFailedRequest")
        i6 == UseResponse(i5, "instrumentRequest", "instrumentFailedRequest")
    IN  i6

\* new GitHubAppClient(...): the registrations of the constructor, in order
GitHubAppClientInterceptors ==
    LET i1 == UseRequest(NoInterceptors, "setRequestStartTime", "none")
        i2 == UseRequest(i1, "setRequestTimeout", "none")
        i3 == UseRequest(i2, "urlParamsMiddleware", "none")
        i4 == UseResponse(i3, "none", "handleFailedRequest")
        i5 == UseResponse(i4, "instrumentRequest", "instrumentFailedRequest")
        i6 == UseRequest(i5, "appAuthenticationHeaders", "none")
    IN  i6

\* setRequestStartTime: stamps the start time on the request context
setRequestStartTime(config) == [config EXCEPT !.requestStartTime = Some("now")]

\* setRequestTimeout: sets the timeout derived from the configuration
setRequestTimeout(config) == [config EXCEPT !.timeout = Some("configured")]

\* urlParamsMiddleware: replaces every {name} of the path template that has a
\* value in urlParams
urlParamsMiddleware(config) ==
    LET value(name) == (CHOOSE p \in config.urlParams : p.name = name).value
        subst(seg) ==
            IF seg.kind = "param" /\ \E p \in config.urlParams : p.name = seg.text
            THEN Lit(value(seg.text))
            ELSE seg
    IN  [config EXCEPT !.url = [i \in 1..Len(config.url) |-> subst(config.url[i])]]

\* faulty variant: the token fetched when the client was constructed is kept
appAuthenticationHeaders_cached(holder) ==
    LET appToken == getAppToken(holder)
    IN  [Accept |-> Some(AppPreviewAccept),
         Authorization |-> Some(Bearer(IF appToken[1].token > 0 THEN 1 ELSE 0))]

\* appAuthenticationHeaders(): Accept and Authorization built from the token
\* the Token Provider returns now
appAuthenticationHeaders(holder) ==
    LET appToken == getAppToken(holder)
    IN  [Accept |-> Some(AppPreviewAccept), Authorization |-> Some(Bearer(appToken[1].token))]

\* {...config.headers, ...auth}: the keys of auth replace those of headers
SpreadHeaders(headers, auth) ==
    [h \in {"Accept", "Authorization"} |-> IF auth[h] # Undefined THEN auth[h] ELSE headers[h]]

\* the request interceptor registered last by the constructor
AuthInterceptor(config, holder) ==
    [config EXCEPT !.headers = SpreadHeaders(config.headers, appAuthenticationHeaders(holder))]

\* the interceptor throws when getAppToken throws, and when it returns
\* undefined (appToken.token is then a TypeError)
AuthInterceptorThrows(holder) == getAppToken(holder) = Undefined

AuthInterceptorError(holder) ==
    IF holder.mode = "throws"
    THEN TransportError("TokenProviderError", 0)
    ELSE TransportError("TypeError", 0)

\* faulty variant: a failure of the Token Provider is caught and the request
\* goes on without credentials
AuthStep_swallow(call, holder) ==
    IF AuthInterceptorThrows(holder)
    THEN call
    ELSE [call EXCEPT !.config = AuthInterceptor(@, holder)]

\* the interceptor as one step of the chain: a throw rejects the promise
AuthStep(call, holder) ==
    IF AuthInterceptorThrows(holder)
    THEN [call EXCEPT !.settled = "rejected", !.error = AuthInterceptorError(holder)]
    ELSE [call EXCEPT !.config = AuthInterceptor(@, holder)]

\* handleFailedRequest(logger): classifies the failure, logs it and rejects
\* with the enriched error
handleFailedRequest(error) ==
    [error EXCEPT !.class =
        IF error.kind \in {"TokenProviderError", "TypeError"} THEN "authentication"
        ELSE IF error.kind = "ETIMEDOUT" THEN "timeout"
        ELSE IF error.kind = "ECONNREFUSED" THEN "connection"
        ELSE "status"]

\* instrumentRequest(metricName): records the metric, returns the response
instrumentRequest(response) == response

\* instrumentFailedRequest(metricName): records the metric, rejects again
instrumentFailedRequest(error) == error

-----------------------------------------------------------------------------
(* One call on a transport: the walk through the promise chain             *)

IdleCall ==
    [pc |-> "idle", k |-> 0, settled |-> "fulfilled", config |-> NoConfig,
     response |-> NoResponse, error |-> NoError, trace |-> <<>>, sent |-> 0,
     wire |-> Undefined, issuedAt |-> 0, outcome |-> "pending", settlements |-> 0,
     result |-> NoResponse, thrown |-> NoThrown, failure |-> NoError,
     afterAuthFailure |-> FALSE]

\* axios.request(config): the call enters its promise chain
StartCall(call, config, holder) ==
    [call EXCEPT !.pc = "chain", !.k = 1, !.settled = "fulfilled", !.config = config,
                 !.issuedAt = holder.version]

\* the handler of chain element k that the current state of the promise selects
Selected(call, chain) ==
    IF call.settled = "fulfilled" THEN chain[call.k].fulfilled ELSE chain[call.k].rejected

AtHandler(call, chain) == call.pc = "chain" /\ call.k <= Len(chain)

\* one .then(fulfilled, rejected) of the chain other than dispatchRequest
StepCall(call, chain, holder) ==
    LET h == Selected(call, chain)
        next == [call EXCEPT !.k = @ + 1]
        ran == [next EXCEPT !.trace = Append(@, h)]
    IN  CASE h = "none" -> next
          [] h = "setRequestStartTime" -> [ran EXCEPT !.config = setRequestStartTime(@)]
          [] h = "setRequestTimeout" -> [ran EXCEPT !.config = setRequestTimeout(@)]
          [] h = "urlParamsMiddleware" -> [ran EXCEPT !.config = urlParamsMiddleware(@)]
          [] h = "appAuthenticationHeaders" ->
                AuthStep(ran, holder)
          [] h = "handleFailedRequest" -> [ran EXCEPT !.error = handleFailedRequest(@)]
          [] h = "instrumentRequest" -> [ran EXCEPT !.response = instrumentRequest(@)]
          [] h = "instrumentFailedRequest" -> [ran EXCEPT !.error = instrumentFailedRequest(@)]

\* dispatchRequest(config): the request goes to the network
DispatchCall(call) ==
    [call EXCEPT !.pc = "inflight", !.sent = @ + 1, !.wire = Some(call.config),
                 !.trace = Append(@, "dispatchRequest")]

\* the network answers with a 2xx response
RespondCall(call, response) ==
    [call EXCEPT !.pc = "chain", !.k = @ + 1, !.response = response]

\* faulty variant: a failed request is dispatched again
FailCall_retry(call, error) ==
    IF call.sent < 2
    THEN [call EXCEPT !.pc = "chain", !.failure = error]
    ELSE [call EXCEPT !.pc = "chain", !.k = @ + 1, !.settled = "rejected", !.error = error,
                      !.failure = error]

\* the network fails the request
FailCall(call, error) ==
    [call EXCEPT !.pc = "chain", !.k = @ + 1, !.settled = "rejected", !.error = error,
                 !.failure = error]

-----------------------------------------------------------------------------
(* GitHubAppClient                                                         *)

\* the tasks that call the client; the calls of one task follow one another,
\* and the Token Provider may change between any two steps of a call
Slots == {"task"}

Param2(name, value) == [name |-> name, value |-> value]

getUserMembershipForOrgConfig(username, org) ==
    [url |-> <<Lit("/orgs/"), Param("org"), Lit("/memberships/"), Param("username")>>,
     urlParams |-> {Param2("username", username), Param2("org", org)}]

getAppConfig == [url |-> <<Lit("/app")>>, urlParams |-> {}]

getInstallationConfig(installationId) ==
    [url |-> <<Lit("/installations/"), Param("installationId")>>,
     urlParams |-> {Param2("installationId", installationId)}]

getInstallationsConfig == [url |-> <<Lit("/app/installations")>>, urlParams |-> {}]

AppMethodConfigs ==
    { getUserMembershipForOrgConfig("octocat", "acme"), getAppConfig,
      getInstallationConfig("42"), getInstallationsConfig }

AppChain == AxiosChain(GitHubAppClientInterceptors)

\* one of getApp, getInstallation, getInstallations, getUserMembershipForOrg
\* is called: this.axios.get(url, {urlParams})
AppCall(c, m, headers) ==
    /\ appClient
    /\ calls[c].pc = "idle"
    /\ calls' = [calls EXCEPT ![c] =
                    StartCall(@, RequestConfig("GET", m.url, m.urlParams, headers, Undefined),
                              appTokenHolder)]
    /\ UNCHANGED <<clientVars, appClient, appTokenHolder>>

AppChainStep(c) ==
    /\ appClient
    /\ AtHandler(calls[c], AppChain)
    /\ Selected(calls[c], AppChain) # "dispatchRequest"
    /\ calls' = [calls EXCEPT ![c] = StepCall(@, AppChain, appTokenHolder)]
    /\ UNCHANGED <<clientVars, appClient, appTokenHolder>>

AppDispatch(c) ==
    /\ appClient
    /\ AtHandler(calls[c], AppChain)
    /\ Selected(calls[c], AppChain) = "dispatchRequest"
    /\ calls' = [calls EXCEPT ![c] = DispatchCall(@)]
    /\ UNCHANGED <<clientVars, appClient, appTokenHolder>>

AppNetworkRespond(c) ==
    /\ calls[c].pc = "inflight"
    /\ calls' = [calls EXCEPT ![c] = RespondCall(@, Response(200, Undefined))]
    /\ UNCHANGED <<clientVars, appClient, appTokenHolder>>

AppNetworkFail(c, error) ==
    /\ calls[c].pc = "inflight"
    /\ calls' = [calls EXCEPT ![c] = FailCall(@, error)]
    /\ UNCHANGED <<clientVars, appClient, appTokenHolder>>

\* `return await this.axios.get(...)`: the method settles as the chain did
AwaitAxios(call) ==
    IF call.settled = "fulfilled"
    THEN [call EXCEPT !.pc = "done", !.outcome = "resolved", !.result = call.response,
                      !.settlements = @ + 1]
    ELSE [call EXCEPT !.pc = "done", !.outcome = "rejected", !.settlements = @ + 1]

AppReturn(c) ==
    /\ calls[c].pc = "chain"
    /\ calls[c].k > Len(AppChain)
    /\ calls' = [calls EXCEPT ![c] = AwaitAxios(@)]
    /\ UNCHANGED <<clientVars, appClient, appTokenHolder>>

AuthFailureKinds == {"TokenProviderError", "TypeError"}

\* the caller is finished with the result; its next call starts afresh
AppNextCall(c) ==
    /\ calls[c].pc = "done"
    /\ calls' = [calls EXCEPT ![c] =
                    [IdleCall EXCEPT !.afterAuthFailure = (calls[c].error.kind \in AuthFailureKinds)]]
    /\ UNCHANGED <<clientVars, appClient, appTokenHolder>>

\* the Token Provider replaces the token it hands out
RotateToken ==
    /\ appClient
    /\ appTokenHolder.version <= MaxRotations
    /\ appTokenHolder' = [appTokenHolder EXCEPT !.version = @ + 1]
    /\ UNCHANGED <<clientVars, appClient, calls>>

\* the Token Provider starts or stops failing
SetProviderMode(mode) ==
    /\ appClient
    /\ mode # appTokenHolder.mode
    /\ appTokenHolder' = [appTokenHolder EXCEPT !.mode = mode]
    /\ UNCHANGED <<clientVars, appClient, calls>>

-----------------------------------------------------------------------------
(* GitHubClient: construction                                              *)

\* new URL(baseUrl) throws a TypeError on a string that is not an URL
ConstructorThrows(cfg) == ~Truthy(cfg.proxyBaseUrl) /\ ~cfg.apiUrl.valid

\* ...(gitHubConfig.proxyBaseUrl ? this.buildProxyConfig(...) : this.getProxyConfig(...))
ConstructorConfig(cfg, envProxy) ==
    IF Truthy(cfg.proxyBaseUrl)
    THEN buildProxyConfig(cfg.proxyBaseUrl[1])
    ELSE getProxyConfig(cfg.apiUrl, envProxy)

\* new GitHubClient(gitHubConfig): the transport is created, bound to apiUrl,
\* with the proxy configuration; no interceptor is registered
Constructor ==
    /\ ctor = "new"
    /\ IF ConstructorThrows(gitHubConfig)
       THEN /\ ctor' = "threw"
            /\ axiosConfig' = axiosConfig
       ELSE /\ ctor' = "built"
            /\ axiosConfig' = ConstructorConfig(gitHubConfig, envPROXY)
    /\ interceptors' = NoInterceptors
    /\ UNCHANGED <<gitHubConfig, envPROXY, gcall, appVars>>

\* The rest of the constructor of a concrete client (a subclass of
\* GitHubClient, which alone can call the protected graphql): it registers
\* the request pipeline on the transport its superclass created.
SubclassInterceptors(im) ==
    LET i1 == UseRequest(im, "setRequestStartTime", "none")
        i2 == UseRequest(i1, "setRequestTimeout", "none")
        i3 == UseRequest(i2, "urlParamsMiddleware", "none")
        i4 == UseRequest(i3, "appAuthenticationHeaders", "none")
        i5 == UseResponse(i4, "instrumentRequest", "instrumentFailedRequest")
        i6 == UseResponse(i5, "none", "handleFailedRequest")
    IN  i6

SubclassConstructor ==
    /\ ctor = "built"
    /\ ctor' = "ready"
    /\ interceptors' = SubclassInterceptors(interceptors)
    /\ UNCHANGED <<gitHubConfig, envPROXY, axiosConfig, gcall, appVars>>

-----------------------------------------------------------------------------
(* GitHubClient.graphql                                                    *)

MaxErrors == 3

Messages == {"Not Found", "Something went wrong"}

ErrorTypes == {Undefined, Some("RATE_LIMITED"), Some("NOT_FOUND")}

GraphQLErrors == [message : Messages, type : ErrorTypes]

SeqsUpTo(S, n) == UNION {[1..m -> S] : m \in 0..n}

\* the body of a 2xx answer: none at all, or {data?, errors?}
GraphQlBodies ==
    {Undefined} \cup
    {Some(b) : b \in [data : {Undefined, Some("payload")},
                      errors : {Undefined} \cup {Some(es) : es \in SeqsUpTo(GraphQLErrors, MaxErrors)}]}

Queries == {"query { viewer { login } }"}

Variables == {Undefined, Some("owner=acme")}

\* faulty variant: the request goes through a transport of its own
graphqlChain_bare(im) == AxiosChain(NoInterceptors)

\* the transport this.axios.post goes through: the client's own, with the
\* interceptors registered on it
graphqlChain(im) == AxiosChain(im)

\* this.axios.post(this.graphqlUrl, {query, variables}, config)
graphqlConfig(cfg, query, variables, headers) ==
    RequestConfig("POST", <<Lit(cfg.graphqlUrl)>>, {}, headers,
                  Some([query |-> query, variables |-> variables]))

Graphql(query, variables, headers) ==
    /\ ctor = "ready"
    /\ gcall.pc = "idle"
    /\ gcall' = StartCall(gcall, graphqlConfig(gitHubConfig, query, variables, headers),
                          appTokenHolder)
    /\ UNCHANGED <<gitHubConfig, envPROXY, ctor, axiosConfig, interceptors, appVars>>

GraphqlChainStep ==
    /\ AtHandler(gcall, graphqlChain(interceptors))
    /\ Selected(gcall, graphqlChain(interceptors)) # "dispatchRequest"
    /\ gcall' = StepCall(gcall, graphqlChain(interceptors), appTokenHolder)
    /\ UNCHANGED <<gitHubConfig, envPROXY, ctor, axiosConfig, interceptors, appVars>>

GraphqlDispatch ==
    /\ AtHandler(gcall, graphqlChain(interceptors))
    /\ Selected(gcall, graphqlChain(interceptors)) = "dispatchRequest"
    /\ gcall' = DispatchCall(gcall)
    /\ UNCHANGED <<gitHubConfig, envPROXY, ctor, axiosConfig, interceptors, appVars>>

GraphqlNetworkRespond(body) ==
    /\ ctor = "ready"
    /\ gcall.pc = "inflight"
    /\ gcall' = RespondCall(gcall, Response(200, body))
    /\ UNCHANGED <<gitHubConfig, envPROXY, ctor, axiosConfig, interceptors, appVars>>

GraphqlNetworkFail(error) ==
    /\ ctor = "ready"
    /\ gcall.pc = "inflight"
    /\ gcall' = FailCall(gcall, error)
    /\ UNCHANGED <<gitHubConfig, envPROXY, ctor, axiosConfig, interceptors, appVars>>

RECURSIVE Digits(_)
\* the decimal digits of a natural number, as `${n}` prints them
Digits(n) ==
    LET d == <<"0","1","2","3","4","5","6","7","8","9">>[(n % 10) + 1]
    IN  IF n < 10 THEN <<d>> ELSE Digits(n \div 10) \o <<d>>

\* response.data?.errors
graphqlErrorsOf(response) ==
    IF response.data = Undefined THEN Undefined ELSE response.data[1].errors

\* graphqlErrors?.length
HasLength(errors) == errors # Undefined /\ Len(errors[1]) > 0

\* faulty variant: only the first error is looked at
FindRateLimited_firstOnly(errors) ==
    IF errors[1].type = Some("RATE_LIMITED") THEN Some(errors[1]) ELSE Undefined

\* graphqlErrors.find(err => err.type == "RATE_LIMITED")
FindRateLimited(errors) ==
    LET hits == {i \in 1..Len(errors) : errors[i].type = Some("RATE_LIMITED")}
    IN  IF hits = {} THEN Undefined
        ELSE Some(errors[CHOOSE i \in hits : \A j \in hits : i <= j])

\* faulty variant: counts all the errors instead of the additional ones
graphQlErrorMessage_countAll(errors) ==
    <<errors[1].message>> \o
    (IF Len(errors) > 1 THEN <<" and ">> \o Digits(Len(errors)) \o <<" more errors">> ELSE <<>>)

\* graphqlErrors[0].message + (graphqlErrors.length > 1 ? ` and ${n - 1} more errors` : "")
graphQlErrorMessage(errors) ==
    <<errors[1].message>> \o
    (IF Len(errors) > 1 THEN <<" and ">> \o Digits(Len(errors) - 1) \o <<" more errors">> ELSE <<>>)

RateLimitingError(response) ==
    [name |-> "RateLimitingError", message |-> <<>>, errors |-> <<>>, response |-> response]

GithubClientGraphQLError(message, errors) ==
    [name |-> "GithubClientGraphQLError", message |-> message, errors |-> errors,
     response |-> NoResponse]

\* faulty variant: a body without data is rejected
graphqlInspect_requireData(call) ==
    LET response == call.response
        graphqlErrors == graphqlErrorsOf(response)
        settledCall == [call EXCEPT !.pc = "done", !.settlements = @ + 1]
    IN  IF call.settled = "rejected"
        THEN [settledCall EXCEPT !.outcome = "rejected"]
        ELSE IF HasLength(graphqlErrors)
        THEN IF FindRateLimited(graphqlErrors[1]) # Undefined
             THEN [settledCall EXCEPT !.outcome = "rejected",
                                      !.thrown = RateLimitingError(response)]
             ELSE [settledCall EXCEPT !.outcome = "rejected",
                                      !.thrown = GithubClientGraphQLError(
                                                    graphQlErrorMessage(graphqlErrors[1]),
                                                    graphqlErrors[1])]
        ELSE IF response.data = Undefined \/ response.data[1].data = Undefined
        THEN [settledCall EXCEPT !.outcome = "rejected",
                                 !.thrown = GithubClientGraphQLError(<<"no data">>, <<>>)]
        ELSE [settledCall EXCEPT !.outcome = "resolved", !.result = response]

\* the body of graphql after `await this.axios.post(...)`
graphqlInspect(call) ==
    LET response == call.response
        graphqlErrors == graphqlErrorsOf(response)
        settledCall == [call EXCEPT !.pc = "done", !.settlements = @ + 1]
    IN  IF call.settled = "rejected"
        THEN [settledCall EXCEPT !.outcome = "rejected"]
        ELSE IF HasLength(graphqlErrors)
        THEN IF FindRateLimited(graphqlErrors[1]) # Undefined
             THEN [settledCall EXCEPT !.outcome = "rejected",
                                      !.thrown = RateLimitingError(response)]
             ELSE [settledCall EXCEPT !.outcome = "rejected",
                                      !.thrown = GithubClientGraphQLError(
                                                    graphQlErrorMessage(graphqlErrors[1]),
                                                    graphqlErrors[1])]
        ELSE [settledCall EXCEPT !.outcome = "resolved", !.result = response]

GraphqlResume ==
    /\ ctor = "ready"
    /\ gcall.pc = "chain"
    /\ gcall.k > Len(graphqlChain(interceptors))
    /\ gcall' = graphqlInspect(gcall)
    /\ UNCHANGED <<gitHubConfig, envPROXY, ctor, axiosConfig, interceptors, appVars>>

\* the caller is finished with the result; its next call starts afresh
GraphqlNextCall ==
    /\ gcall.pc = "done"
    /\ gcall' = IdleCall
    /\ UNCHANGED <<gitHubConfig, envPROXY, ctor, axiosConfig, interceptors, appVars>>

-----------------------------------------------------------------------------
(* Specifications                                                          *)

InitialHolder == [mode |-> "ok", version |-> 1]

NoGitHubClient ==
    /\ gitHubConfig = [apiUrl |-> InvalidUrl, graphqlUrl |-> "https://api.github.com/graphql",
                       proxyBaseUrl |-> Undefined]
    /\ envPROXY = Undefined
    /\ ctor = "absent"
    /\ axiosConfig = NoAxiosConfig
    /\ interceptors = NoInterceptors
    /\ gcall = IdleCall

NoAppClient ==
    /\ appClient = FALSE
    /\ appTokenHolder = InitialHolder
    /\ calls = [c \in Slots |-> IdleCall]

\* a GitHubClient is about to be constructed, for any configuration
InitProxy ==
    /\ gitHubConfig \in GitHubConfigs
    /\ envPROXY \in EnvProxies
    /\ ctor = "new"
    /\ axiosConfig = NoAxiosConfig
    /\ interceptors = NoInterceptors
    /\ gcall = IdleCall
    /\ NoAppClient

NextProxy == Constructor

SpecProxy == InitProxy /\ [][NextProxy]_vars

GheUrl == [valid |-> TRUE, protocol |-> "https:", hostname |-> HostGitHub, port |-> <<>>]

\* a concrete client is about to be constructed for a GitHub host
InitGraphql ==
    /\ gitHubConfig \in [apiUrl : {GheUrl}, graphqlUrl : GraphqlUrls,
                         proxyBaseUrl : {Undefined, Some(ExplicitProxyUrl)}]
    /\ envPROXY = Some(EnvProxyUrl)
    /\ ctor = "new"
    /\ axiosConfig = NoAxiosConfig
    /\ interceptors = NoInterceptors
    /\ gcall = IdleCall
    /\ NoAppClient

NextGraphql ==
    \/ Constructor
    \/ SubclassConstructor
    \/ \E q \in Queries, v \in Variables, h \in IncomingHeaders : Graphql(q, v, h)
    \/ GraphqlChainStep
    \/ GraphqlDispatch
    \/ \E body \in GraphQlBodies : GraphqlNetworkRespond(body)
    \/ \E e \in TransportFailures : GraphqlNetworkFail(e)
    \/ GraphqlResume
    \/ GraphqlNextCall

SpecGraphql == InitGraphql /\ [][NextGraphql]_vars

\* a GitHubAppClient has been constructed
InitApp ==
    /\ NoGitHubClient
    /\ appClient = TRUE
    /\ appTokenHolder = InitialHolder
    /\ calls = [c \in Slots |-> IdleCall]

NextApp ==
    \/ \E c \in Slots, m \in AppMethodConfigs, h \in IncomingHeaders : AppCall(c, m, h)
    \/ \E c \in Slots : AppChainStep(c)
    \/ \E c \in Slots : AppDispatch(c)
    \/ \E c \in Slots : AppNetworkRespond(c)
    \/ \E c \in Slots, e \in TransportFailures : AppNetworkFail(c, e)
    \/ \E c \in Slots : AppReturn(c)
    \/ \E c \in Slots : AppNextCall(c)
    \/ RotateToken
    \/ \E mode \in ProviderModes : SetProviderMode(mode)

SpecApp == InitApp /\ [][NextApp]_vars

\* either client
InitClients == InitGraphql \/ InitApp

NextClients == NextGraphql \/ NextApp

SpecClients == InitClients /\ [][NextClients]_vars

-----------------------------------------------------------------------------
(* Properties                                                              *)

\* an optional string that holds a non-empty value
IsSet(opt) == opt # Undefined /\ opt # Some("")

\* C1: whenever proxyBaseUrl is set, whatever apiUrl and the process-wide
\* proxy setting are, the constructed transport has an HTTP agent and an HTTPS
\* agent that both point at proxyBaseUrl, and native proxy handling is off.
ExplicitProxyUsedForBothSchemes ==
    (ctor # "new" /\ IsSet(gitHubConfig.proxyBaseUrl)) =>
        /\ ctor = "built"
        /\ axiosConfig.httpAgent =
               Some([agent |-> "HttpProxyAgent", proxy |-> gitHubConfig.proxyBaseUrl[1]])
        /\ axiosConfig.httpsAgent =
               Some([agent |-> "HttpsProxyAgent", proxy |-> gitHubConfig.proxyBaseUrl[1]])
        /\ axiosConfig.proxy = FALSE

\* the explicit proxy wins for a trusted host while a process-wide proxy is set
ExplicitProxyOnTrustedHost ==
    /\ ctor = "built"
    /\ IsSet(gitHubConfig.proxyBaseUrl)
    /\ gitHubConfig.apiUrl.valid
    /\ gitHubConfig.apiUrl.hostname = HostApiAtlassian
    /\ IsSet(envPROXY)
    /\ axiosConfig.httpAgent # Undefined

\* the host name is the trusted domain or one of its subdomains
InTrustedDomain(hostname) ==
    \/ hostname = TrustedSuffix
    \/ EndsWith(hostname, <<".">> \o TrustedSuffix)

\* C2: without proxyBaseUrl, a host of the trusted domain gets no proxy agent
\* whatever the process-wide proxy setting is, and every other host gets an
\* agent built from the process-wide setting exactly when that setting is set.
TrustedDirectOthersThroughEnvProxy ==
    (ctor = "built" /\ ~IsSet(gitHubConfig.proxyBaseUrl)) =>
        IF InTrustedDomain(gitHubConfig.apiUrl.hostname)
        THEN axiosConfig.httpAgent = Undefined /\ axiosConfig.httpsAgent = Undefined
        ELSE axiosConfig.httpsAgent =
                (IF IsSet(envPROXY)
                 THEN Some([agent |-> "HttpsProxyAgent", proxy |-> envPROXY[1]])
                 ELSE Undefined)

\* the errors of the body of a successful answer, <<>> when there are none
BodyErrors(call) ==
    IF call.response.data = Undefined THEN <<>>
    ELSE IF call.response.data[1].errors = Undefined THEN <<>>
    ELSE call.response.data[1].errors[1]

HasRateLimitEntry(errors) == \E i \in 1..Len(errors) : errors[i].type = Some("RATE_LIMITED")

GraphqlAnswered(call) == call.pc = "done" /\ call.settled = "fulfilled"

\* C3: a successful answer whose errors hold a rate-limit entry, at any
\* position and among any other errors, rejects with RateLimitingError that
\* carries the whole response, never with GithubClientGraphQLError.
RateLimitEntryRejectsAsRateLimiting ==
    (GraphqlAnswered(gcall) /\ HasRateLimitEntry(BodyErrors(gcall))) =>
        /\ gcall.outcome = "rejected"
        /\ gcall.thrown.name = "RateLimitingError"
        /\ gcall.thrown.response = gcall.response

\* a rate-limit entry in last place, behind two errors of other types
RateLimitEntryLast ==
    /\ GraphqlAnswered(gcall)
    /\ Len(BodyErrors(gcall)) = 3
    /\ BodyErrors(gcall)[1].type = Some("NOT_FOUND")
    /\ BodyErrors(gcall)[2].type = Undefined
    /\ BodyErrors(gcall)[3].type = Some("RATE_LIMITED")
    /\ gcall.thrown.name = "RateLimitingError"

CountText == <<"1", "2", "3", "4", "5", "6", "7", "8", "9">>

\* C4: n >= 1 errors, none of rate-limit type, reject with
\* GithubClientGraphQLError; the message is the first error's message when
\* n = 1 and "<first message> and <n-1> more errors" when n > 1; the payload
\* is the errors sequence in its order.
GenericErrorsRejectWithAggregateMessage ==
    LET errors == BodyErrors(gcall)
        n == Len(errors)
    IN  (GraphqlAnswered(gcall) /\ n >= 1 /\ ~HasRateLimitEntry(errors)) =>
            /\ gcall.outcome = "rejected"
            /\ gcall.thrown.name = "GithubClientGraphQLError"
            /\ gcall.thrown.errors = errors
            /\ gcall.thrown.message =
                   (IF n = 1 THEN <<errors[1].message>>
                    ELSE <<errors[1].message, " and ", CountText[n - 1], " more errors">>)

\* three errors, none of rate-limit type: "... and 2 more errors"
ThreeGenericErrors ==
    /\ GraphqlAnswered(gcall)
    /\ Len(BodyErrors(gcall)) = 3
    /\ ~HasRateLimitEntry(BodyErrors(gcall))
    /\ BodyErrors(gcall)[1].message # BodyErrors(gcall)[2].message
    /\ gcall.thrown.message = <<"Not Found", " and ", "2", " more errors">>

\* C5: a successful answer with empty or absent errors (also without data,
\* also without a body) resolves with the response of the transport, unchanged.
NoErrorsResolvesWithResponse ==
    (GraphqlAnswered(gcall) /\ BodyErrors(gcall) = <<>>) =>
        /\ gcall.outcome = "resolved"
        /\ gcall.result = gcall.response
        /\ gcall.thrown = NoThrown

\* an answer with an empty errors sequence and no data
EmptyErrorsNoData ==
    /\ GraphqlAnswered(gcall)
    /\ gcall.response.data # Undefined
    /\ gcall.response.data[1].errors = Some(<<>>)
    /\ gcall.response.data[1].data = Undefined
    /\ gcall.outcome = "resolved"

\* the version of the token a dispatched request carries, 0 when it carries
\* no bearer token
WireToken(call) ==
    IF call.wire = Undefined THEN 0
    ELSE IF call.wire[1].headers.Authorization = Undefined THEN 0
    ELSE IF call.wire[1].headers.Authorization[1].scheme # "Bearer" THEN 0
    ELSE call.wire[1].headers.Authorization[1].token

\* C6: every dispatched request of the App Client carries the app-preview
\* Accept header and a bearer token that the Token Provider handed out during
\* this very call (never one of before the call was made), whatever headers
\* came with the call.
EveryRequestCarriesCurrentToken ==
    \A c \in Slots :
        calls[c].wire # Undefined =>
            /\ calls[c].wire[1].headers.Accept = Some(AppPreviewAccept)
            /\ calls[c].wire[1].headers.Authorization # Undefined
            /\ calls[c].wire[1].headers.Authorization[1].scheme = "Bearer"
            /\ WireToken(calls[c]) >= calls[c].issuedAt
            /\ WireToken(calls[c]) <= appTokenHolder.version
            /\ WireToken(calls[c]) >= 1

\* a request dispatched after two rotations carries the third token
RequestAfterRotations ==
    \E c \in Slots :
        /\ calls[c].wire # Undefined
        /\ calls[c].issuedAt = 3
        /\ WireToken(calls[c]) = 3
        /\ calls[c].config.url = <<Lit("/installations/"), Lit("42")>>

RankAsListed(h) ==
    CASE h = "setRequestStartTime" -> 1
      [] h = "setRequestTimeout" -> 2
      [] h = "urlParamsMiddleware" -> 3
      [] h = "appAuthenticationHeaders" -> 4
      [] h = "dispatchRequest" -> 5
      [] h \in {"instrumentRequest", "instrumentFailedRequest"} -> 6
      [] h = "handleFailedRequest" -> 7

RankAsExecuted(h) ==
    CASE h = "appAuthenticationHeaders" -> 1
      [] h = "urlParamsMiddleware" -> 2
      [] h = "setRequestTimeout" -> 3
      [] h = "setRequestStartTime" -> 4
      [] h = "dispatchRequest" -> 5
      [] h = "handleFailedRequest" -> 6
      [] h \in {"instrumentRequest", "instrumentFailedRequest"} -> 7

\* C7 as stated: the steps of a call run in the order start time, timeout,
\* URL parameters, authentication, dispatch, instrumentation, classification.
PipelineRunsInListedOrder ==
    \A c \in Slots : \A i, j \in 1..Len(calls[c].trace) :
        i < j => RankAsListed(calls[c].trace[i]) < RankAsListed(calls[c].trace[j])

\* C7: the steps of a call run in the order authentication, URL parameters,
\* timeout, start time, dispatch; on the response path of a failed call the
\* failure is classified before the failure instrumentation is recorded; and
\* a request is dispatched only after the four request steps.
PipelineRunsInExecutedOrder ==
    \A c \in Slots :
        /\ \A i, j \in 1..Len(calls[c].trace) :
              i < j => RankAsExecuted(calls[c].trace[i]) < RankAsExecuted(calls[c].trace[j])
        /\ calls[c].sent > 0 =>
              SubSeq(calls[c].trace, 1, 5) =
                  <<"appAuthenticationHeaders", "urlParamsMiddleware", "setRequestTimeout",
                    "setRequestStartTime", "dispatchRequest">>
        /\ (calls[c].pc = "done" /\ calls[c].failure # NoError) =>
              SubSeq(calls[c].trace, 6, 7) = <<"handleFailedRequest", "instrumentFailedRequest">>

\* a call that failed on the network and ran all seven steps
FailedCallRanAllSteps ==
    \E c \in Slots :
        /\ calls[c].pc = "done"
        /\ calls[c].failure # NoError
        /\ Len(calls[c].trace) = 7

CallSettlesOnce(call) ==
    /\ call.sent <= 1
    /\ call.settlements <= 1
    /\ call.pc = "done" => call.settlements = 1
    /\ call.failure # NoError => call.settled = "rejected"
    /\ (call.pc = "done" /\ call.failure # NoError) =>
          /\ call.outcome = "rejected"
          /\ call.error.kind = call.failure.kind
          /\ call.error.status = call.failure.status

\* C9: a call dispatches at most one request; a failed dispatch is never
\* followed by another one nor turned into a result: the call rejects once,
\* with that failure.
NoRetryNoSwallowedFailure ==
    /\ CallSettlesOnce(gcall)
    /\ \A c \in Slots : CallSettlesOnce(calls[c])

\* an App Client call rejected with the status the network answered
AppCallRejectedWithStatus ==
    \E c \in Slots :
        /\ calls[c].pc = "done"
        /\ calls[c].failure.kind = "status"
        /\ calls[c].failure.status = 500
        /\ calls[c].outcome = "rejected"
        /\ calls[c].sent = 1

====
